---- MODULE Spec2Model ----
(***************************************************************************)
(* Model of tbb::collaborative_call_once                                   *)
(* (include/oneapi/tbb/collaborative_call_once.h).                         *)
(*                                                                         *)
(* One collaborative_once_flag is shared by the calling threads; each       *)
(* thread makes one call of do_collaborative_call_once, starting at any    *)
(* time (so calls are concurrent or sequential).  Every access to          *)
(* my_state, to a runner's ref_count / m_initialized and to the runner's   *)
(* wait_context is one atomic step; thread-local code is folded into the   *)
(* step that precedes it.  A spinning CAS or wait is a step that is        *)
(* enabled when the spin ends.                                             *)
(*                                                                         *)
(* my_state is kept as the integer the code stores: 0, 1, or the address   *)
(* of a runner plus the admission count in the low bit_count bits.         *)
(* The word is scaled down: bit_count is 2 here (7 in the source), so      *)
(* that the saturated count max_nfs_size-1 is reached by a few threads.    *)
(*                                                                         *)
(* Spec      NumThreads callers, any interleaving, up to MaxFail failures  *)
(* SpecCrowd CrowdThreads callers arriving in two waves (a scenario)       *)
(* SpecStorm StormThreads callers, the second attempt goes on (a scenario) *)
(* FairSpec  FairThreads callers under strongly fair scheduling            *)
(***************************************************************************)
EXTENDS Integers, FiniteSets, TLC

\* ------------------------------------------------------------- bounds
\* callers of Spec, of the scenario SpecCrowd and of FairSpec; runs of fn that may raise
NumThreads == 3
CrowdThreads == 6
StormThreads == 7
FairThreads == 3
MaxFail == 1

\* ------------------------------------------------------------- constants
bit_count == 2
max_nfs_size == 2 ^ bit_count
uninitialized == 0
done == 1
\* std::uintptr_t arithmetic wraps; the word is wide enough for every address used
uintptr_modulus == 2 ^ 16
\* sizeof(once_runner) in units of its alignment: the object holds ref_count,
\* m_initialized and storage_t, so two runners are at least 2*max_nfs_size apart
runner_size == 2

Threads == 1 .. NumThreads
Crowd == 1 .. CrowdThreads
Storm == 1 .. StormThreads
FairCallers == 1 .. FairThreads
\* every thread of the program; one that never calls stays "idle"
AllThreads == Threads \cup Crowd \cup Storm \cup FairCallers

\* reinterpret_cast<std::uintptr_t>(&local_runner) of thread t
Addr(t) == t * runner_size * max_nfs_size

maskoff_pointer(ptr) == ptr - (ptr % max_nfs_size)

VARIABLES
    my_state,       \* collaborative_once_flag::my_state
    pc,             \* position of each thread in do_collaborative_call_once
    expected,       \* the local `expected` of each thread
    runner,         \* the local `runner` pointer of each moonlighting thread
    alive,          \* local_runner of thread t is constructed and not destroyed
    ref_count,      \* once_runner::ref_count of thread t's local_runner
    m_initialized,  \* once_runner::m_initialized of thread t's local_runner
    wait_ctx,       \* m_storage.my_wait_context reference count
    fn_started,     \* number of runs of fn started
    fn_count,       \* the counter fn increments when it completes
    fn_failed,      \* number of runs of fn that raised
    winners,        \* threads that ever won the CAS of line 146
    ran_fn,         \* threads whose call ran fn
    registered,     \* threads between a successful registration CAS and fetch_sub
    called_done,    \* threads whose call found the flag done at line 143
    wild            \* a thread went through a pointer that is no live runner

vars == <<my_state, pc, expected, runner, alive, ref_count, m_initialized,
          wait_ctx, fn_started, fn_count, fn_failed, winners, ran_fn,
          registered, called_done, wild>>

Init ==
    /\ my_state = uninitialized
    /\ pc = [t \in AllThreads |-> "idle"]
    /\ expected = [t \in AllThreads |-> 0]
    /\ runner = [t \in AllThreads |-> 0]
    /\ alive = [t \in AllThreads |-> FALSE]
    /\ ref_count = [t \in AllThreads |-> 0]
    /\ m_initialized = [t \in AllThreads |-> FALSE]
    /\ wait_ctx = [t \in AllThreads |-> 0]
    /\ fn_started = 0
    /\ fn_count = 0
    /\ fn_failed = 0
    /\ winners = {}
    /\ ran_fn = {}
    /\ registered = {}
    /\ called_done = {}
    /\ wild = FALSE

\* ------------------------------------------------------------- helpers
\* line 168: expected | (max_nfs_size-1)
max_value(e) == maskoff_pointer(e) + (max_nfs_size - 1)

\* faulty variant: the loop runs only while the flag is uninitialized
LoopContinuesWhileUninitialized(e) == e = uninitialized

\* line 145: while (expected != state::done)
LoopContinues(e) == e # done

\* faulty variant: every value but done is taken for uninitialized
SeesNotDone(e) == e # done

\* line 146, first conjunct: expected == state::uninitialized
SeesUninitialized(e) == e = uninitialized

\* faulty variant: >= in place of >
MayRegisterOrDone(e) == e >= done

\* line 171, first conjunct: expected > state::done
MayRegister(e) == e > done

\* lines 150, 156, 161: the value the winner's CAS expects
local_expected(t) == Addr(t)

\* faulty variant: a failed attempt marks the flag done
on_exception_done == done

\* line 155: the value on_exception stores
on_exception_state == uninitialized

\* faulty variant: a successful attempt leaves the flag uninitialized
success_state_reset == uninitialized

\* line 160: the value the winner stores after a successful run
success_state == done

\* faulty variant: a do-while loop, the body runs before the first test
LoopTopBodyFirst(e) == IF e = uninitialized THEN "try_win" ELSE "spin"

\* where a thread goes when it is back at line 145 with expected = e
LoopTop(e) ==
    IF ~LoopContinues(e) THEN "dtor"
    ELSE IF SeesUninitialized(e) THEN "try_win"
    ELSE "spin"

\* p is the address of a once_runner that is constructed and not yet destroyed
Live(p) == \E u \in AllThreads : Addr(u) = p /\ alive[u]
OwnerOf(p) == CHOOSE u \in AllThreads : Addr(u) = p

\* ------------------------------------------------------------- actions
\* lines 143-145: load my_state, construct local_runner, test the loop condition
Call(t) ==
    /\ pc[t] = "idle"
    /\ expected' = [expected EXCEPT ![t] = my_state]
    /\ alive' = [alive EXCEPT ![t] = TRUE]
    /\ ref_count' = [ref_count EXCEPT ![t] = 0]
    /\ m_initialized' = [m_initialized EXCEPT ![t] = FALSE]
    /\ pc' = [pc EXCEPT ![t] = LoopTop(my_state)]
    /\ called_done' = IF my_state = done THEN called_done \cup {t} ELSE called_done
    /\ UNCHANGED <<my_state, runner, wait_ctx, fn_started, fn_count, fn_failed,
                   winners, ran_fn, registered, wild>>

\* faulty variant: a plain store in place of the compare-exchange
TryWinStore(t) ==
    /\ pc[t] = "try_win"
    /\ my_state' = Addr(t)
    /\ winners' = winners \cup {t}
    /\ pc' = [pc EXCEPT ![t] = "make_runner"]
    /\ UNCHANGED <<expected, runner, alive, ref_count, m_initialized, wait_ctx,
                   fn_started, fn_count, fn_failed, ran_fn, registered, wild,
                   called_done>>

\* line 146: my_state.compare_exchange_strong(expected, &local_runner)
TryWin(t) ==
    /\ pc[t] = "try_win"
    /\ IF my_state = expected[t]
       THEN /\ my_state' = Addr(t)
            /\ winners' = winners \cup {t}
            /\ pc' = [pc EXCEPT ![t] = "make_runner"]
            /\ UNCHANGED expected
       ELSE /\ expected' = [expected EXCEPT ![t] = my_state]
            /\ pc' = [pc EXCEPT ![t] = "spin"]
            /\ UNCHANGED <<my_state, winners>>
    /\ UNCHANGED <<runner, alive, ref_count, m_initialized, wait_ctx, fn_started,
                   fn_count, fn_failed, ran_fn, registered, wild, called_done>>

\* line 148 (lines 96-99): construct m_storage, publish m_initialized
MakeRunner(t) ==
    /\ pc[t] = "make_runner"
    /\ m_initialized' = [m_initialized EXCEPT ![t] = TRUE]
    /\ wait_ctx' = [wait_ctx EXCEPT ![t] = 0]
    /\ pc' = [pc EXCEPT ![t] = "run_once"]
    /\ UNCHANGED <<my_state, expected, runner, alive, ref_count, fn_started,
                   fn_count, fn_failed, winners, ran_fn, registered, wild, called_done>>

\* line 153 (lines 110-116): reserve the wait_context and start the task of fn
RunOnce(t) ==
    /\ pc[t] = "run_once"
    /\ wait_ctx' = [wait_ctx EXCEPT ![t] = 1]
    /\ fn_started' = fn_started + 1
    /\ ran_fn' = ran_fn \cup {t}
    /\ pc' = [pc EXCEPT ![t] = "in_fn"]
    /\ UNCHANGED <<my_state, expected, runner, alive, ref_count, m_initialized,
                   fn_count, fn_failed, winners, registered, wild, called_done>>

\* fn completes: its effects are applied, the wait_context is released and
\* execute_and_wait returns to run_once (line 116)
FnReturns(t) ==
    /\ pc[t] = "in_fn"
    /\ fn_count' = fn_count + 1
    /\ wait_ctx' = [wait_ctx EXCEPT ![t] = 0]
    /\ pc' = [pc EXCEPT ![t] = "cas_done"]
    /\ UNCHANGED <<my_state, expected, runner, alive, ref_count, m_initialized,
                   fn_started, fn_failed, winners, ran_fn, registered, wild, called_done>>

\* fn raises: the wait_context is released and execute_and_wait rethrows into
\* try_call (line 152), which runs on_exception
FnThrows(t) ==
    /\ pc[t] = "in_fn"
    /\ fn_failed < MaxFail
    /\ fn_failed' = fn_failed + 1
    /\ wait_ctx' = [wait_ctx EXCEPT ![t] = 0]
    /\ pc' = [pc EXCEPT ![t] = "on_exception"]
    /\ UNCHANGED <<my_state, expected, runner, alive, ref_count, m_initialized,
                   fn_started, fn_count, winners, ran_fn, registered, wild, called_done>>

\* lines 155-157: the CAS loop of on_exception; a failed CAS resets
\* local_expected and retries, so the step is taken when the CAS succeeds
OnException(t) ==
    /\ pc[t] = "on_exception"
    /\ my_state = local_expected(t)
    /\ my_state' = on_exception_state
    /\ pc' = [pc EXCEPT ![t] = "unwind"]
    /\ UNCHANGED <<expected, runner, alive, ref_count, m_initialized, wait_ctx,
                   fn_started, fn_count, fn_failed, winners, ran_fn, registered, wild, called_done>>

\* lines 160-162: the CAS loop that publishes done
CasDone(t) ==
    /\ pc[t] = "cas_done"
    /\ my_state = local_expected(t)
    /\ my_state' = success_state
    /\ pc' = [pc EXCEPT ![t] = "dtor"]
    /\ UNCHANGED <<expected, runner, alive, ref_count, m_initialized, wait_ctx,
                   fn_started, fn_count, fn_failed, winners, ran_fn, registered, wild, called_done>>

\* faulty variant: ~once_runner does not wait for ref_count
DtorNeverWaits(t) == TRUE

\* lines 89-94: ~once_runner waits while ref_count > 0
DtorMayPass(t) == ~(ref_count[t] > 0)

\* lines 164, 187 with 89-94: return through ~once_runner
Return(t) ==
    /\ pc[t] = "dtor"
    /\ DtorMayPass(t)
    /\ alive' = [alive EXCEPT ![t] = FALSE]
    /\ pc' = [pc EXCEPT ![t] = "returned"]
    /\ UNCHANGED <<my_state, expected, runner, ref_count, m_initialized, wait_ctx,
                   fn_started, fn_count, fn_failed, winners, ran_fn, registered, wild, called_done>>

\* line 158 with 89-94: try_call rethrows, the stack unwinds through ~once_runner
Raise(t) ==
    /\ pc[t] = "unwind"
    /\ DtorMayPass(t)
    /\ alive' = [alive EXCEPT ![t] = FALSE]
    /\ pc' = [pc EXCEPT ![t] = "raised"]
    /\ UNCHANGED <<my_state, expected, runner, ref_count, m_initialized, wait_ctx,
                   fn_started, fn_count, fn_failed, winners, ran_fn, registered, wild, called_done>>

\* lines 168-171: spin_wait_while_eq(my_state, max_value) returns the value it
\* read, then the test expected > state::done
SpinWait(t) ==
    /\ pc[t] = "spin"
    /\ my_state # max_value(expected[t])
    /\ expected' = [expected EXCEPT ![t] = my_state]
    /\ pc' = [pc EXCEPT ![t] =
                IF MayRegister(my_state) THEN "cas_reg"
                ELSE IF maskoff_pointer(my_state) # 0 THEN "wait_for_init"
                ELSE LoopTop(my_state)]
    /\ runner' = [runner EXCEPT ![t] =
                IF MayRegister(my_state) THEN @ ELSE maskoff_pointer(my_state)]
    /\ UNCHANGED <<my_state, alive, ref_count, m_initialized, wait_ctx, fn_started,
                   fn_count, fn_failed, winners, ran_fn, registered, wild, called_done>>

\* line 171: my_state.compare_exchange_strong(expected, expected + 1), then
\* line 173: runner = maskoff_pointer(expected)
Register(t) ==
    /\ pc[t] = "cas_reg"
    /\ IF my_state = expected[t]
       THEN /\ my_state' = (expected[t] + 1) % uintptr_modulus
            /\ registered' = registered \cup {t}
            /\ runner' = [runner EXCEPT ![t] = maskoff_pointer(expected[t])]
            /\ pc' = [pc EXCEPT ![t] =
                        IF maskoff_pointer(expected[t]) # 0 THEN "wait_for_init"
                        ELSE LoopTop(expected[t])]
            /\ UNCHANGED expected
       ELSE /\ expected' = [expected EXCEPT ![t] = my_state]
            /\ pc' = [pc EXCEPT ![t] = "spin"]
            /\ UNCHANGED <<my_state, registered, runner>>
    /\ UNCHANGED <<alive, ref_count, m_initialized, wait_ctx, fn_started,
                   fn_count, fn_failed, winners, ran_fn, wild, called_done>>

\* line 174 (lines 101-103): spin while the runner's m_initialized is false.
\* Through a pointer that is no live runner the read is undefined: it may see
\* true, or false for ever.
WaitForInit(t) ==
    /\ pc[t] = "wait_for_init"
    /\ IF Live(runner[t])
       THEN /\ m_initialized[OwnerOf(runner[t])]
            /\ pc' = [pc EXCEPT ![t] = "increase_ref"]
            /\ UNCHANGED wild
       ELSE /\ wild' = TRUE
            /\ \E nxt \in {"increase_ref", "hung"} : pc' = [pc EXCEPT ![t] = nxt]
    /\ UNCHANGED <<my_state, expected, runner, alive, ref_count, m_initialized,
                   wait_ctx, fn_started, fn_count, fn_failed, winners, ran_fn,
                   registered, called_done>>

\* line 176 (line 105): runner->increase_ref()
IncreaseRef(t) ==
    /\ pc[t] = "increase_ref"
    /\ IF Live(runner[t])
       THEN /\ ref_count' = [ref_count EXCEPT ![OwnerOf(runner[t])] = @ + 1]
            /\ UNCHANGED wild
       ELSE /\ wild' = TRUE
            /\ UNCHANGED ref_count
    /\ pc' = [pc EXCEPT ![t] = "fetch_sub"]
    /\ UNCHANGED <<my_state, expected, runner, alive, m_initialized, wait_ctx,
                   fn_started, fn_count, fn_failed, winners, ran_fn, registered, called_done>>

\* line 177: my_state.fetch_sub(1)
FetchSub(t) ==
    /\ pc[t] = "fetch_sub"
    /\ my_state' = (my_state - 1) % uintptr_modulus
    /\ registered' = registered \ {t}
    /\ pc' = [pc EXCEPT ![t] = "assist"]
    /\ UNCHANGED <<expected, runner, alive, ref_count, m_initialized, wait_ctx,
                   fn_started, fn_count, fn_failed, winners, ran_fn, wild, called_done>>

\* faulty variant: assist waits with the runner's own context in place of
\* stub_context, so the failure of fn is rethrown on the moonlighting thread
AssistRethrows(t) ==
    /\ pc[t] = "assist"
    /\ Live(runner[t]) /\ m_initialized[OwnerOf(runner[t])]
    /\ wait_ctx[OwnerOf(runner[t])] = 0
    /\ pc' = [pc EXCEPT ![t] =
                IF pc[OwnerOf(runner[t])] \in {"on_exception", "unwind"}
                THEN "unwind" ELSE "decrease_ref"]
    /\ UNCHANGED <<my_state, expected, runner, alive, ref_count, m_initialized,
                   wait_ctx, fn_started, fn_count, fn_failed, winners, ran_fn,
                   registered, wild, called_done>>

\* line 181 (lines 121-130): wait on the runner's wait_context; returns when
\* its reference count is zero and never raises
Assist(t) ==
    /\ pc[t] = "assist"
    /\ IF Live(runner[t]) /\ m_initialized[OwnerOf(runner[t])]
       THEN /\ wait_ctx[OwnerOf(runner[t])] = 0
            /\ pc' = [pc EXCEPT ![t] = "decrease_ref"]
            /\ UNCHANGED wild
       ELSE /\ wild' = TRUE
            /\ \E nxt \in {"decrease_ref", "hung"} : pc' = [pc EXCEPT ![t] = nxt]
    /\ UNCHANGED <<my_state, expected, runner, alive, ref_count, m_initialized,
                   wait_ctx, fn_started, fn_count, fn_failed, winners, ran_fn,
                   registered, called_done>>

\* line 183 (line 107): runner->decrease_ref(), then back to line 145
DecreaseRef(t) ==
    /\ pc[t] = "decrease_ref"
    /\ IF Live(runner[t])
       THEN /\ ref_count' = [ref_count EXCEPT ![OwnerOf(runner[t])] = @ - 1]
            /\ UNCHANGED wild
       ELSE /\ wild' = TRUE
            /\ UNCHANGED ref_count
    /\ runner' = [runner EXCEPT ![t] = 0]
    /\ pc' = [pc EXCEPT ![t] = LoopTop(expected[t])]
    /\ UNCHANGED <<my_state, expected, alive, m_initialized, wait_ctx,
                   fn_started, fn_count, fn_failed, winners, ran_fn, registered, called_done>>

Step(t) ==
    \/ Call(t)
    \/ TryWin(t)
    \/ MakeRunner(t)
    \/ RunOnce(t)
    \/ FnReturns(t)
    \/ FnThrows(t)
    \/ OnException(t)
    \/ CasDone(t)
    \/ Return(t)
    \/ Raise(t)
    \/ SpinWait(t)
    \/ Register(t)
    \/ WaitForInit(t)
    \/ IncreaseRef(t)
    \/ FetchSub(t)
    \/ Assist(t)
    \/ DecreaseRef(t)

Next == \E t \in Threads : Step(t)

Spec == Init /\ [][Next]_vars

\* ------------------------------------------------------------- a crowd of late callers
\* A scenario of the same program in which the callers arrive in two waves and
\* the second run of fn is long: thread 1 calls on the fresh flag, thread 2
\* calls while the first attempt is active, thread 3 calls after the first run
\* of fn has raised and the flag is reset, thread 4 calls during the second
\* attempt, each later thread calls during the second attempt once the thread
\* before it is registered and waits in wait_for_init, and the winner of the second attempt is pre-empted right after its
\* CAS of line 146 for the rest of the scenario.
\* Every behaviour of SpecCrowd is a behaviour of the program with CrowdThreads threads.
CallCrowd(t) ==
    /\ Call(t)
    /\ \/ t = 1
       \/ t = 2 /\ my_state > done
       \/ t = 3 /\ fn_failed > 0 /\ my_state = uninitialized
       \/ t = 4 /\ fn_failed > 0 /\ my_state > done
       \/ t > 4 /\ fn_failed > 0 /\ my_state > done /\ pc[t - 1] = "wait_for_init"

StepCrowd(t) ==
    \/ CallCrowd(t)
    \/ TryWin(t)
    \/ MakeRunner(t) /\ t = 1
    \/ RunOnce(t)
    \/ FnThrows(t)
    \/ OnException(t)
    \/ Raise(t)
    \/ SpinWait(t)
    \/ Register(t)
    \/ WaitForInit(t)
    \/ IncreaseRef(t)
    \/ FetchSub(t)
    \/ Assist(t)
    \/ DecreaseRef(t)

NextCrowd == \E t \in Crowd : StepCrowd(t)

SpecCrowd == Init /\ [][NextCrowd]_vars

\* ------------------------------------------------------------- the second attempt goes on
\* A scenario that follows the crowd past the saturated count.  The callers
\* arrive one after the other: thread 2 during the run of fn of the first
\* attempt, thread 3 when the call of thread 1 has raised, thread 4 when
\* thread 3 has won, each later thread when the one before it is registered,
\* and the last thread when max_nfs_size threads are registered at once.
\* Until the last thread has called, thread 2 is pre-empted unless
\* max_nfs_size-1 threads are registered for the second attempt, and the
\* winner of the second attempt is pre-empted after its CAS of line 146.
\* The threads after thread 4, but for the last, are pre-empted as soon as
\* they are registered, for the rest of the scenario.  When the last thread
\* has called, the other threads run freely; the second run of fn is long.
\* Every behaviour of SpecStorm is a behaviour of the program with StormThreads threads.
Released == pc[StormThreads] # "idle"

Preempted(t) ==
    \/ /\ ~Released
       /\ \/ t = 2 /\ ~(fn_failed > 0 /\ Cardinality(registered) = max_nfs_size - 1)
          \/ t # 1 /\ pc[t] = "make_runner"
    \/ t > 4 /\ t < StormThreads /\ pc[t] = "wait_for_init"

CallStorm(t) ==
    /\ Call(t)
    /\ \/ t = 1
       \/ t = 2 /\ pc[1] = "in_fn"
       \/ t = 3 /\ pc[1] = "raised"
       \/ t = 4 /\ pc[3] = "make_runner"
       \/ t > 4 /\ t < StormThreads /\ pc[t - 1] = "wait_for_init"
       \/ t = StormThreads /\ Cardinality(registered) >= max_nfs_size

StepStorm(t) ==
    \/ CallStorm(t)
    \/ TryWin(t) /\ ~Preempted(t)
    \/ MakeRunner(t) /\ ~Preempted(t)
    \/ RunOnce(t) /\ ~Preempted(t)
    \/ FnThrows(t) /\ ~Preempted(t)
    \/ OnException(t) /\ ~Preempted(t)
    \/ Raise(t) /\ ~Preempted(t)
    \/ SpinWait(t) /\ ~Preempted(t)
    \/ Register(t) /\ ~Preempted(t)
    \/ WaitForInit(t) /\ ~Preempted(t)
    \/ IncreaseRef(t) /\ ~Preempted(t)
    \/ FetchSub(t) /\ ~Preempted(t)
    \/ Assist(t) /\ ~Preempted(t)
    \/ DecreaseRef(t) /\ ~Preempted(t)

NextStorm == \E t \in Storm : StepStorm(t)

SpecStorm == Init /\ [][NextStorm]_vars

\* ------------------------------------------------------------- fair scheduling
\* FairThreads callers under a scheduler that is strongly fair to every step of
\* every thread that has called: a step that is enabled again and again is
\* taken, so each spinning CAS succeeds if its expected value keeps coming
\* back, and fn terminates (it returns or raises).
NextFair == \E t \in FairCallers : Step(t)

\* a step of a thread that has called; at each position a thread has one
\* kind of step, so strong fairness of Proceed(t) is strong fairness of each
Proceed(t) == pc[t] # "idle" /\ Step(t)

Fairness == \A t \in FairCallers : SF_vars(Proceed(t))

FairSpec == Init /\ [][NextFair]_vars /\ Fairness

\* ------------------------------------------------------------- claims
\* thread t holds the winner role: between its CAS of line 146 and its CAS to
\* done (line 160) or back to uninitialized (line 155)
HoldsWinner(t) == pc[t] \in {"make_runner", "run_once", "in_fn", "on_exception", "cas_done"}

\* the call of thread t has ended, by return or by raising
Left(t) == pc[t] \in {"returned", "raised"}

\* C1: when all N calls on the fresh flag have returned (so no run of fn
\* raised), fn has been run exactly once: the counter fn increments is 1.
C1_ExactlyOnce ==
    (\A t \in Threads : pc[t] = "returned") => (fn_count = 1 /\ fn_started = 1)

\* all N calls overlapped the one attempt and all have returned
C1_Witness ==
    /\ \A t \in Threads : pc[t] = "returned"
    /\ called_done = {}
    /\ fn_count = 1

\* C2: a caller that returns normally (it is past the loop of line 145 or past
\* the return of line 164) does so only when a run of fn has completed
\* successfully and my_state is done.
C2_ReturnAfterDone ==
    \A t \in AllThreads :
        pc[t] \in {"dtor", "returned"} => (fn_count >= 1 /\ my_state = done)

\* a moonlighting thread of the attempt has returned
C2_Witness ==
    \E t \in Threads : pc[t] = "returned" /\ t \notin winners /\ t \notin called_done

\* C3: fn completes successfully at most once, and no run of fn starts after a
\* run of fn has completed successfully.
C3_AtMostOneSuccess ==
    [][fn_count' <= 1 /\ (fn_count >= 1 => fn_started' = fn_started)]_vars

\* fn failed once, then succeeded, and a thread that read uninitialized long
\* ago is about to try the CAS of line 146
C3_Witness ==
    fn_count = 1 /\ fn_failed = 1 /\ \E t \in Threads : pc[t] = "try_win"

\* C4: done is absorbing: no step changes my_state once it is done.
C4_DoneAbsorbing == [][my_state = done => my_state' = done]_vars

\* the flag is done while a thread is about to run its registration CAS
C4_Witness == my_state = done /\ \E t \in Threads : pc[t] = "cas_reg"

\* C5: a call that finds the flag done at line 143 goes straight to the
\* return, changes neither my_state nor any runner's counters, runs no fn, and
\* its ~once_runner does not wait (ref_count of its runner is 0).
C5_CallOnDone ==
    [][\A t \in AllThreads :
        /\ (pc[t] = "idle" /\ pc'[t] # "idle" /\ my_state = done) =>
              /\ pc'[t] = "dtor"
              /\ ref_count'[t] <= 0
              /\ my_state' = my_state /\ ref_count' = ref_count
              /\ wait_ctx' = wait_ctx /\ m_initialized' = m_initialized
              /\ fn_started' = fn_started /\ fn_count' = fn_count
        /\ (t \in called_done /\ pc[t] = "dtor") =>
              /\ ref_count[t] <= 0
              /\ pc'[t] \in {"dtor", "returned"}
              /\ (pc'[t] = "returned" =>
                    /\ my_state' = my_state /\ ref_count' = ref_count
                    /\ fn_started' = fn_started /\ fn_count' = fn_count)
        /\ (t \in called_done) => (t \notin winners /\ t \notin ran_fn)]_vars

\* a call made on the done flag has returned
C5_Witness == \E t \in called_done : pc[t] = "returned"

\* C6: a winner whose fn raised leaves on_exception only by storing
\* uninitialized; my_state becomes done only after a successful run; and when
\* every call has ended and some run of fn succeeded, the flag is done.
C6_NoPoisoning ==
    [][/\ \A t \in AllThreads :
            (pc[t] = "on_exception" /\ pc'[t] # "on_exception") =>
                (my_state' = uninitialized /\ pc'[t] = "unwind")
       /\ \A t \in AllThreads :
            (pc'[t] \in {"unwind", "raised"} /\ pc[t] \notin {"unwind", "raised"}) =>
                pc[t] = "on_exception"
       /\ (my_state' = done) => (fn_count' >= 1)
       /\ ((\A t \in Threads : Left(t)') /\ fn_count' >= 1) => my_state' = done]_vars

\* the first run of fn raised, its winner's call raised, a later run succeeded
\* and the flag is done
C6_Witness ==
    /\ fn_failed = 1 /\ fn_started = 2 /\ fn_count = 1
    /\ my_state = done
    /\ \E t \in Threads : pc[t] = "raised"

\* C7: a call raises only if it ran fn as the winner and fn raised; a thread
\* that ran fn is a winner; no more calls raise than runs of fn raised.
C7_OnlyWinnerRaises ==
    /\ \A t \in AllThreads :
          pc[t] \in {"on_exception", "unwind", "raised"} => (t \in ran_fn /\ t \in winners)
    /\ ran_fn \subseteq winners
    /\ Cardinality({t \in AllThreads : pc[t] \in {"on_exception", "unwind", "raised"}})
          <= fn_failed

\* fn raised on the winner t while the thread u, which assisted that attempt,
\* comes back from assist without raising
C7_Witness ==
    \E t, u \in Threads :
        /\ pc[t] \in {"on_exception", "unwind"}
        /\ pc[u] = "decrease_ref" /\ runner[u] = Addr(t)

\* C8: under fair scheduling and a terminating fn, every caller that has
\* entered do_collaborative_call_once eventually leaves it, by return or by
\* raising.
C8_EveryCallLeaves ==
    \A t \in FairCallers : (pc[t] # "idle") ~> Left(t)

\* C9: at most one thread holds the winner role at any moment; while no run of
\* fn has raised at most one thread ever won; and when all calls have
\* returned without a failure exactly one thread won and ran fn.
C9_OneWinner ==
    /\ Cardinality({t \in AllThreads : HoldsWinner(t)}) <= 1
    /\ fn_failed = 0 => (Cardinality(winners) <= 1 /\ ran_fn \subseteq winners)
    /\ (fn_failed = 0 /\ \A t \in Threads : pc[t] = "returned") =>
          (Cardinality(winners) = 1 /\ ran_fn = winners)

\* a winner runs fn while another thread, which read uninitialized, is about to
\* try the CAS of line 146
C9_Witness ==
    \E t, u \in Threads : t # u /\ pc[t] = "in_fn" /\ pc[u] = "try_win"

\* C10: the admission count never exceeds max_nfs_size-1 and never carries into
\* the address bits: at most max_nfs_size-1 threads are between a successful
\* registration CAS and their fetch_sub, and an Active my_state carries the
\* address of the runner of the thread holding the winner role.
C10_AdmissionBounded ==
    /\ Cardinality(registered) <= max_nfs_size - 1
    /\ my_state > done =>
          \E t \in AllThreads : HoldsWinner(t) /\ maskoff_pointer(my_state) = Addr(t)

\* the three shapes of the flag word: the two sentinels and Active(addr, count)
IsActive(s) == s > done
AdmissionCount(s) == s % max_nfs_size

\* C11: my_state leaves uninitialized only to Active(addr,0) with addr the
\* runner of the thread that thereby holds the winner role; it leaves Active
\* for done or uninitialized only from Active(addr,0) with addr the runner of
\* the thread holding the winner role, by that thread's step; and whenever it
\* is Active its address part is the runner of the thread holding the winner
\* role.
C11_FlagShape ==
    [][/\ (my_state = uninitialized /\ my_state' # uninitialized) =>
            \E t \in AllThreads :
                my_state' = Addr(t) /\ ~HoldsWinner(t) /\ HoldsWinner(t)'
       /\ (IsActive(my_state) /\ ~IsActive(my_state')) =>
            \E t \in AllThreads :
                /\ HoldsWinner(t) /\ ~HoldsWinner(t)'
                /\ my_state = Addr(t) /\ AdmissionCount(my_state) = 0
                /\ my_state' = (IF pc[t] = "on_exception" THEN uninitialized ELSE done)
       /\ IsActive(my_state') =>
            \E t \in AllThreads :
                HoldsWinner(t)' /\ maskoff_pointer(my_state') = Addr(t)]_vars

\* the positions at which a moonlighting thread goes through its pointer
\* `runner` (lines 174, 176, 181, 183)
AtRunnerAccess(t) == pc[t] \in {"wait_for_init", "increase_ref", "assist", "decrease_ref"}

\* C12: every access of a moonlighting thread through the pointer recovered
\* from my_state (wait_for_init, increase_ref, assist, decrease_ref) is made
\* on a once_runner that is constructed and not yet destroyed and whose owner
\* won with it: the owner is inside do_collaborative_call_once and has not
\* passed the ref_count wait of ~once_runner.
C12_NoDestroyedRunnerTouched ==
    [][\A t \in AllThreads :
          (AtRunnerAccess(t) /\ pc'[t] # pc[t]) =>
              /\ Live(runner[t])
              /\ \E u \in winners : Addr(u) = runner[t] /\ pc[u] \notin {"idle", "returned", "raised"}]_vars

\* thread t is between its registration CAS (line 171) and its fetch_sub (line 177)
Admitted(t) == pc[t] \in {"wait_for_init", "increase_ref", "fetch_sub"}

\* thread t is between its increase_ref (line 176) and its decrease_ref (line 183)
Referencing(t) == pc[t] \in {"fetch_sub", "assist", "decrease_ref"}

\* C13: a moonlighting thread between its registration CAS and its
\* decrease_ref is counted in the admission count of my_state, which is then
\* Active of the thread's runner with a count of at least the threads admitted
\* on it, or in the ref_count of its runner, which is then at least the number
\* of threads referencing it (at fetch_sub it is counted in both); while it is
\* admitted the owner of the runner holds the winner role, and in either case
\* the runner is not destroyed.
C13_NoGap ==
    \A t \in AllThreads :
        (Admitted(t) \/ Referencing(t)) =>
            /\ Live(runner[t])
            /\ Admitted(t) =>
                  /\ IsActive(my_state) /\ maskoff_pointer(my_state) = runner[t]
                  /\ AdmissionCount(my_state) >=
                        Cardinality({u \in AllThreads : Admitted(u) /\ runner[u] = runner[t]})
                  /\ HoldsWinner(OwnerOf(runner[t]))
            /\ Referencing(t) =>
                  ref_count[OwnerOf(runner[t])] >=
                        Cardinality({u \in AllThreads : Referencing(u) /\ runner[u] = runner[t]})

\* the moonlighting threads between increase_ref and decrease_ref on the
\* local_runner of thread r
ReferencingOn(r) == {t \in AllThreads : Referencing(t) /\ runner[t] = Addr(r)}

RefCountExact ==
    \A r \in AllThreads :
        /\ ref_count[r] = Cardinality(ReferencingOn(r))
        /\ ref_count[r] >= 0
        /\ r \notin winners => ref_count[r] = 0

\* C14: in every state the ref_count of each runner equals the number of
\* moonlighting threads between increase_ref and decrease_ref on it, is not
\* negative, and is zero on a runner that never won; and the step in which
\* ~once_runner passes its wait is taken with ref_count zero.
C14_RefCountExact ==
    /\ RefCountExact
    /\ [][/\ RefCountExact'
          /\ \A r \in AllThreads : (alive[r] /\ ~alive'[r]) => ref_count[r] = 0]_vars

\* a winner waits in its destructor for a moonlighting thread that has come
\* back from assist and has not yet called decrease_ref
C14_Witness ==
    \E r, t \in Threads :
        /\ pc[r] \in {"dtor", "unwind"} /\ ref_count[r] > 0
        /\ pc[t] = "decrease_ref" /\ runner[t] = Addr(r)

\* the bundle m_storage of the runner of r is constructed exactly when r has
\* won and is past make_runner; the runner of a thread that never won has no bundle
BundleOfWinnerOnly ==
    \A r \in AllThreads : m_initialized[r] <=> (r \in winners /\ pc[r] # "make_runner")

\* a thread that is at or past increase_ref holds a pointer to a live runner
\* whose m_initialized was set by make_runner
AssistAfterInit ==
    \A t \in AllThreads :
        (pc[t] = "increase_ref" \/ Referencing(t)) =>
            (Live(runner[t]) /\ m_initialized[OwnerOf(runner[t])])

\* C15: m_initialized of a runner is set only by the step make_runner of its
\* owner, which won the CAS of line 146 with it, and once per winning attempt;
\* the runner of a thread that did not win never has a bundle; and a
\* moonlighting thread calls increase_ref and assist only on a runner whose
\* m_initialized has been set by make_runner.
C15_BundleLifecycle ==
    /\ BundleOfWinnerOnly /\ AssistAfterInit
    /\ [][/\ BundleOfWinnerOnly' /\ AssistAfterInit'
          /\ \A r \in AllThreads :
                (m_initialized'[r] /\ ~m_initialized[r]) =>
                    (r \in winners /\ pc[r] = "make_runner" /\ pc'[r] = "run_once")]_vars

\* C16: under fair scheduling, a winner whose run of fn has completed
\* (it is at the CAS loop of line 160) eventually stores done, and a thread
\* in ~once_runner eventually passes the ref_count wait and returns.
C16_WinnerFinishes ==
    \A t \in FairCallers :
        /\ (pc[t] = "cas_done") ~> (pc[t] = "dtor")
        /\ (pc[t] = "dtor") ~> (pc[t] = "returned")

\* C17: a successful registration CAS (line 171) increments an Active
\* my_state, never uninitialized or done; and every fetch_sub (line 177) is
\* executed on a my_state that is Active, of the runner the thread registered
\* on, with a count of at least 1, so that the result is again Active of that
\* runner: no borrow from the address bits, no step from done to
\* uninitialized and no underflow of uninitialized.
C17_CountOnActiveOnly ==
    [][\A t \in AllThreads :
          /\ (t \in registered' /\ t \notin registered) =>
                (IsActive(my_state) /\ my_state' = my_state + 1)
          /\ (pc[t] = "fetch_sub" /\ pc'[t] # "fetch_sub") =>
                /\ IsActive(my_state)
                /\ maskoff_pointer(my_state) = runner[t]
                /\ AdmissionCount(my_state) >= 1
                /\ my_state' = my_state - 1
                /\ maskoff_pointer(my_state') = runner[t]]_vars
====
